---------------------------- MODULE Spec2Model ----------------------------
(***************************************************************************)
(* Bookify (src/book_recommender.py): the preference-to-candidate pipeline *)
(* (build_tags, fetch_books, filter_books, pick_random, format_book) and   *)
(* the Streamlit session that drives it (Find Books, Like, Skip).          *)
(*                                                                         *)
(* Representation of Python values:                                        *)
(*   - a str is the sequence of its characters ("kid" is <<"k","i","d">>), *)
(*     so that lower(), join(), "in" and "+" are computed, not assumed;    *)
(*   - a value that may be None / a dict field that may be missing is an   *)
(*     option: None is <<>>, a present value v is <<v>>  (d.get(k) of a    *)
(*     missing k is None);                                                 *)
(*   - a call that may raise returns [exc, val]: exc = "" for a normal     *)
(*     return, else the name of the exception.                             *)
(***************************************************************************)
EXTENDS Integers, Sequences, FiniteSets, TLC

VARIABLES
    results,    \* st.session_state.results
    book,       \* st.session_state.book (option of a DisplayBook)
    likes,      \* st.session_state.likes
    sent,       \* GETs to OPENLIBRARY_SEARCH_URL sent by the handler that ran last
    op,         \* the handler that ran last: "none", "submit", "like", "skip"
    exc,        \* the exception that ended that handler ("" when it returned)
    prevKey,    \* the key of the book on display when that handler started
    filtered,   \* what filter_books returned to the last submission
    pc,         \* pure-function harness: "session", "input" or "done"
    arg,        \* pure-function harness: the arguments
    ret         \* pure-function harness: the value returned

vars == <<results, book, likes, sent, op, exc, prevKey, filtered, pc, arg, ret>>

---------------------------------------------------------------------------
(* Bounds of the model *)

\* Genres selected in one quiz submission of the fetch_books harness.
MaxGenres == 1
\* Length of the candidate lists given to filter_books.
MaxFilterLen == 2
\* Length of the mixed candidate lists given to pick_random.
MaxShortLen == 2
\* Length of the long candidate lists given to pick_random (above ten).
MaxPickLen == 11
\* Liked books kept in one session.
MaxLikes == 2

---------------------------------------------------------------------------
(* Python values *)

None == <<>>

Some(v) == <<v>>

Ok(v) == [exc |-> "", val |-> v]

Raise(e) == [exc |-> e, val |-> None]

Range(s) == {s[i] : i \in DOMAIN s}

\* All sequences over S of length at most n.
RECURSIVE SeqsUpTo(_, _)
SeqsUpTo(S, n) ==
    IF n = 0 THEN {<<>>}
    ELSE LET P == SeqsUpTo(S, n - 1)
         IN  P \cup {Append(p, x) : p \in {q \in P : Len(q) = n - 1}, x \in S}

UpperCase ==
    <<"A", "B", "C", "D", "E", "F", "G", "H", "I", "J", "K", "L", "M",
      "N", "O", "P", "Q", "R", "S", "T", "U", "V", "W", "X", "Y", "Z">>

LowerCase ==
    <<"a", "b", "c", "d", "e", "f", "g", "h", "i", "j", "k", "l", "m",
      "n", "o", "p", "q", "r", "s", "t", "u", "v", "w", "x", "y", "z">>

\* str.lower()
lower(s) ==
    [i \in DOMAIN s |->
        IF \E j \in DOMAIN UpperCase : UpperCase[j] = s[i]
        THEN LowerCase[CHOOSE j \in DOMAIN UpperCase : UpperCase[j] = s[i]]
        ELSE s[i]]

\* sep.join(parts)
RECURSIVE join(_, _)
join(sep, parts) ==
    IF parts = <<>> THEN <<>>
    ELSE IF Len(parts) = 1 THEN parts[1]
    ELSE parts[1] \o sep \o join(sep, Tail(parts))

\* k in s  (substring test)
contains(s, k) ==
    \E i \in 0..(Len(s) - Len(k)) : SubSeq(s, i + 1, i + Len(k)) = k

Digits == <<"0", "1", "2", "3", "4", "5", "6", "7", "8", "9">>

\* str(n) of a natural number, as an f-string renders it
RECURSIVE str(_)
str(n) ==
    IF n < 10 THEN <<Digits[n + 1]>>
    ELSE str(n \div 10) \o <<Digits[(n % 10) + 1]>>

---------------------------------------------------------------------------
(* Config and mappings *)

OPENLIBRARY_BASE ==
    <<"h", "t", "t", "p", "s", ":", "/", "/", "o", "p", "e", "n", "l", "i", "b", "r", "a", "r", "y", ".", "o", "r", "g">>

COVERS_BASE_URL ==
    <<"h", "t", "t", "p", "s", ":", "/", "/", "c", "o", "v", "e", "r", "s", ".", "o", "p", "e", "n", "l", "i", "b", "r", "a", "r", "y", ".", "o", "r", "g", "/", "b", "/", "i", "d", "/">>

COVER_SUFFIX ==
    <<"-", "L", ".", "j", "p", "g">>

UnknownTitle ==
    <<"U", "n", "k", "n", "o", "w", "n", " ", "T", "i", "t", "l", "e">>

UnknownYear ==
    <<"U", "n", "k", "n", "o", "w", "n", " ", "Y", "e", "a", "r">>

AuthorSep ==
    <<",", " ">>

\* The labels are the source's without their emoji and padding.
GENRE_TO_SUBJECT ==
    [g \in {"Classics", "Fantasy", "Science Fiction", "Romance", "Mystery / Crime",
            "Thriller", "Horror", "Historical", "Non-fiction", "Young Adult",
            "Children", "Poetry", "Comics / Manga"} |->
        CASE g = "Classics" -> "classics"
          [] g = "Fantasy" -> "fantasy"
          [] g = "Science Fiction" -> "science_fiction"
          [] g = "Romance" -> "romance"
          [] g = "Mystery / Crime" -> "mystery"
          [] g = "Thriller" -> "thriller"
          [] g = "Horror" -> "horror"
          [] g = "Historical" -> "historical_fiction"
          [] g = "Non-fiction" -> "nonfiction"
          [] g = "Young Adult" -> "young_adult"
          [] g = "Children" -> "children"
          [] g = "Poetry" -> "poetry"
          [] g = "Comics / Manga" -> "comics"]

YEAR_RANGES ==
    [y \in {"Before 1950", "1950-1980", "1980-2000", "2000-2010", "2010-2020",
            "After 2020", "No preference"} |->
        CASE y = "Before 1950" -> <<None, Some(1949)>>
          [] y = "1950-1980" -> <<Some(1950), Some(1980)>>
          [] y = "1980-2000" -> <<Some(1980), Some(2000)>>
          [] y = "2000-2010" -> <<Some(2000), Some(2010)>>
          [] y = "2010-2020" -> <<Some(2010), Some(2020)>>
          [] y = "After 2020" -> <<Some(2021), None>>
          [] y = "No preference" -> <<None, None>>]

LENGTH_RANGES ==
    [l \in {"Snack-size", "A normal meal", "A full feast", "Surprise me"} |->
        CASE l = "Snack-size" -> <<Some(0), Some(199)>>
          [] l = "A normal meal" -> <<Some(200), Some(400)>>
          [] l = "A full feast" -> <<Some(401), None>>
          [] l = "Surprise me" -> <<None, None>>]

MOOD_EXTRA_SUBJECTS ==
    [m \in {"Cozy & comfy", "Dark & twisty", "Funny", "Soft & romantic",
            "Adventure", "Scary", "Thought-provoking"} |->
        CASE m = "Cozy & comfy" -> <<"cozy", "friendship">>
          [] m = "Dark & twisty" -> <<"dark", "psychological">>
          [] m = "Funny" -> <<"humor">>
          [] m = "Soft & romantic" -> <<"love_stories">>
          [] m = "Adventure" -> <<"adventure">>
          [] m = "Scary" -> <<"horror">>
          [] m = "Thought-provoking" -> <<"philosophy">>]

kids_keywords ==
    << <<"c", "h", "i", "l", "d", "r", "e", "n">>,
       <<"c", "h", "i", "l", "d", "r", "e", "n", "s">>,
       <<"k", "i", "d">>,
       <<"k", "i", "d", "s">>,
       <<"j", "u", "v", "e", "n", "i", "l", "e">>,
       <<"c", "o", "l", "o", "r", "i", "n", "g", " ", "b", "o", "o", "k">>,
       <<"c", "o", "l", "o", "u", "r", "i", "n", "g", " ", "b", "o", "o", "k">>,
       <<"n", "o", "t", "e", "b", "o", "o", "k">>,
       <<"a", "c", "t", "i", "v", "i", "t", "y", " ", "b", "o", "o", "k">>,
       <<"f", "o", "r", " ", "k", "i", "d", "s">> >>

---------------------------------------------------------------------------
(* Catalog records: what a search response's "docs" may hold.  Every field *)
(* is an option, since the catalog may leave any of them out.              *)

Doc(k, t, a, y, p, c, s, e) ==
    [key |-> k, title |-> t, author_name |-> a, first_publish_year |-> y,
     number_of_pages_median |-> p, cover_i |-> c, subject |-> s,
     edition_count |-> e]

KeyA ==
    <<"/", "w", "o", "r", "k", "s", "/", "O", "L", "1", "W">>

KeyB ==
    <<"/", "w", "o", "r", "k", "s", "/", "O", "L", "2", "W">>

KeyC ==
    <<"/", "w", "o", "r", "k", "s", "/", "O", "L", "3", "W">>

TitleDune ==
    <<"D", "u", "n", "e">>

TitleKid ==
    <<"T", "h", "e", " ", "K", "i", "d">>

TitleEmma ==
    <<"E", "m", "m", "a">>

SubjFantasy ==
    <<"F", "a", "n", "t", "a", "s", "y">>

SubjColoring ==
    <<"C", "o", "l", "o", "r", "i", "n", "g">>

SubjBook ==
    <<"b", "o", "o", "k">>

AuthHerbert ==
    <<"F", "r", "a", "n", "k", " ", "H", "e", "r", "b", "e", "r", "t">>

AuthAnon ==
    <<"A", "n", "o", "n">>

AuthAusten ==
    <<"J", "a", "n", "e", " ", "A", "u", "s", "t", "e", "n">>

\* A full record.
DocDune ==
    Doc(Some(KeyA), Some(TitleDune), Some(<<AuthHerbert>>), Some(1965), Some(412),
        Some(7), Some(<<SubjFantasy>>), Some(9))

\* Another record of the same work (same key), as a second query returns it.
DocDune2 ==
    Doc(Some(KeyA), Some(TitleDune), Some(<<AuthHerbert, AuthAnon>>), Some(1980),
        None, None, None, Some(2))

\* A title that holds a children's keyword in capitals.
DocKid ==
    Doc(Some(KeyB), Some(TitleKid), None, Some(2016), Some(180), None,
        Some(<<SubjFantasy>>), Some(1))

\* Subjects that hold a children's keyword only once joined; no year.
DocEmma ==
    Doc(Some(KeyC), Some(TitleEmma), Some(<<AuthAusten>>), None, Some(200),
        Some(12), Some(<<SubjColoring, SubjBook>>), Some(3))

\* A record missing every field.
DocEmpty ==
    Doc(None, None, None, None, None, None, None, None)

SampleDocs == {DocDune, DocDune2, DocKid, DocEmma, DocEmpty}

---------------------------------------------------------------------------
(* Core logic *)

\* build_tags(prefs): prefs = [genres, mood, length, year_range, kids]
RECURSIVE sum_lists(_)
sum_lists(ls) ==
    IF ls = <<>> THEN <<>> ELSE ls[1] \o sum_lists(Tail(ls))

build_tags(prefs) ==
    [subjects |-> [i \in DOMAIN prefs.genres |-> GENRE_TO_SUBJECT[prefs.genres[i]]],
     extra    |-> sum_lists([i \in DOMAIN prefs.mood |-> MOOD_EXTRA_SUBJECTS[prefs.mood[i]]]),
     year     |-> YEAR_RANGES[prefs.year_range],
     length   |-> LENGTH_RANGES[prefs.length],
     kids     |-> prefs.kids]

\* docs[d["key"]] = d : a dict keeps a key's first position and its last value.
dict_set(docs, d) ==
    IF \E i \in DOMAIN docs : docs[i].key = d.key
    THEN [i \in DOMAIN docs |-> IF docs[i].key = d.key THEN d ELSE docs[i]]
    ELSE Append(docs, d)

\* d.get("key") is truthy: present and not the empty string.
has_key(d) == d.key # None /\ d.key[1] # <<>>

\* The loop of lines 127-129 over one response's docs.
RECURSIVE store_docs(_, _)
store_docs(docs, ds) ==
    IF ds = <<>> THEN docs
    ELSE store_docs(IF has_key(ds[1]) THEN dict_set(docs, ds[1]) ELSE docs, Tail(ds))

\* The q of lines 106-118, as its parts.
query_text(subject, kids) ==
    (IF subject # None THEN <<<<"subject:", subject[1]>>>> ELSE <<<<"books">>>>)
    \o (IF kids = "Yes" THEN <<<<"subject:children OR subject:juvenile">>>> ELSE <<>>)

\* query(subject) against the response r the catalog gives to it:
\* r.kind = "error" (requests.get raises), "notok" (r.ok is false), "ok".
query(docs, r) ==
    IF r.kind = "error" THEN Raise("ConnectionError")
    ELSE IF r.kind = "ok" THEN Ok(store_docs(docs, r.docs))
    ELSE Ok(docs)

\* The order of the queries: main genres, the broad search, the extra subjects.
query_plan(tags) ==
    [i \in DOMAIN tags.subjects |-> Some(tags.subjects[i])]
    \o <<None>>
    \o [i \in DOMAIN tags.extra |-> Some(tags.extra[i])]

\* fetch_books(tags) against the responses the catalog gives, one per query.
\* issued: the queries sent before it returned or raised.
RECURSIVE fetch_from(_, _, _, _)
fetch_from(i, docs, tags, responses) ==
    LET plan == query_plan(tags)
        queries(n) == [j \in 1..n |-> query_text(plan[j], tags.kids)]
    IN  IF i > Len(plan)
        THEN [exc |-> "", docs |-> docs, issued |-> queries(Len(plan))]
        ELSE LET q == query(docs, responses[i])
             IN  IF q.exc # ""
                 THEN [exc |-> q.exc, docs |-> <<>>, issued |-> queries(i)]
                 ELSE fetch_from(i + 1, q.val, tags, responses)

fetch_books(tags, responses) == fetch_from(1, <<>>, tags, responses)

passes_range_strict_low(v, a, b) ==
    IF v = None THEN TRUE
    ELSE IF a # None /\ v[1] <= a[1] THEN FALSE
    ELSE IF b # None /\ v[1] > b[1] THEN FALSE
    ELSE TRUE

passes_range(v, a, b) ==
    IF v = None THEN TRUE
    ELSE IF a # None /\ v[1] < a[1] THEN FALSE
    ELSE IF b # None /\ v[1] > b[1] THEN FALSE
    ELSE TRUE

is_kids_book(doc) ==
    LET title    == lower(IF doc.title # None THEN doc.title[1] ELSE <<>>)
        subjects == IF doc.subject # None /\ doc.subject[1] # <<>>
                    THEN lower(join(<<" ">>, doc.subject[1]))
                    ELSE <<>>
    IN  \/ \E i \in DOMAIN kids_keywords : contains(title, kids_keywords[i])
        \/ \E i \in DOMAIN kids_keywords : contains(subjects, kids_keywords[i])

filter_books(docs, tags) ==
    LET ya == tags.year[1]
        yb == tags.year[2]
        pa == tags.length[1]
        pb == tags.length[2]
        in_range(d) == /\ passes_range(d.first_publish_year, ya, yb)
                       /\ passes_range(d.number_of_pages_median, pa, pb)
        not_kids(d) == ~is_kids_book(d)
        ranged == SelectSeq(docs, in_range)
    IN  IF tags.kids = "No" THEN SelectSeq(ranged, not_kids) ELSE ranged

\* pick_random(docs, prev_key): the values random.choice may return.
pick_random_no_fallback(docs, prev_key) ==
    IF docs = <<>> THEN {None}
    ELSE LET kept == SelectSeq(docs, LAMBDA d : d.key # prev_key)
         IN  IF kept = <<>> THEN {None} ELSE {Some(kept[i]) : i \in DOMAIN kept}

pick_random_no_exclusion(docs, prev_key) ==
    IF docs = <<>> THEN {None}
    ELSE {Some(docs[i]) : i \in DOMAIN docs}

pick_random(docs, prev_key) ==
    IF docs = <<>> THEN {None}
    ELSE LET kept == SelectSeq(docs, LAMBDA d : d.key # prev_key)
             pool == IF kept # <<>> THEN kept ELSE docs
         IN  {Some(pool[i]) : i \in DOMAIN pool}

\* format_book(d), d an option (pick_random may have returned None).
\* The year is an int or the placeholder str: tagged to keep the two apart.
format_book(o) ==
    IF o = None THEN Raise("AttributeError")
    ELSE LET d == o[1]
         IN  IF d.key = None THEN Raise("TypeError")
             ELSE Ok([title   |-> IF d.title # None THEN d.title[1] ELSE UnknownTitle,
                      authors |-> join(AuthorSep,
                                       IF d.author_name # None THEN d.author_name[1]
                                       ELSE <<>>),
                      year    |-> IF d.first_publish_year # None
                                  THEN <<"int", d.first_publish_year[1]>>
                                  ELSE <<"str", UnknownYear>>,
                      pages   |-> d.number_of_pages_median,
                      cover   |-> IF d.cover_i # None /\ d.cover_i[1] # 0
                                  THEN Some(COVERS_BASE_URL \o str(d.cover_i[1])
                                            \o COVER_SUFFIX)
                                  ELSE None,
                      key     |-> d.key,
                      url     |-> OPENLIBRARY_BASE \o d.key[1]])

---------------------------------------------------------------------------
(* The pure functions, each applied once to inputs drawn from bounded sets *)

SessionIdle ==
    /\ results = <<>>
    /\ book = None
    /\ likes = <<>>
    /\ sent = 0
    /\ op = "none"
    /\ exc = ""
    /\ prevKey = None
    /\ filtered = <<>>

SessionUnchanged ==
    UNCHANGED <<results, book, likes, sent, op, exc, prevKey, filtered>>

\* What the catalog may answer to one search request.
Responses ==
    { [kind |-> "error", docs |-> <<>>],
      [kind |-> "notok", docs |-> <<DocKid>>],
      [kind |-> "ok", docs |-> <<>>],
      [kind |-> "ok", docs |-> <<DocDune, DocKid>>],
      [kind |-> "ok", docs |-> <<DocDune2>>],
      [kind |-> "ok", docs |-> <<DocEmpty, DocEmma>>] }

ResponsesFor(tags) ==
    {r \in SeqsUpTo(Responses, Len(query_plan(tags))) : Len(r) = Len(query_plan(tags))}

NoRepeat(s) == \A i, j \in DOMAIN s : s[i] = s[j] => i = j

FetchPrefs ==
    [genres     : {g \in SeqsUpTo({"Fantasy", "Classics"}, MaxGenres) : NoRepeat(g)},
     mood       : {<<>>, <<"Funny">>},
     length     : {"Surprise me"},
     year_range : {"No preference"},
     kids       : {"No", "Yes"}]

InitFetch ==
    /\ SessionIdle
    /\ pc = "input"
    /\ \E prefs \in FetchPrefs :
         \E rs \in ResponsesFor(build_tags(prefs)) :
            arg = [tags |-> build_tags(prefs), responses |-> rs]
    /\ ret = None

ApplyFetch ==
    /\ pc = "input"
    /\ ret' = fetch_books(arg.tags, arg.responses)
    /\ pc' = "done"
    /\ UNCHANGED arg
    /\ SessionUnchanged

SpecFetch == InitFetch /\ [][ApplyFetch]_vars

FilterPrefs ==
    [genres     : {<<"Fantasy">>},
     mood       : {<<>>},
     length     : DOMAIN LENGTH_RANGES,
     year_range : DOMAIN YEAR_RANGES,
     kids       : {"No", "Yes"}]

InitFilter ==
    /\ SessionIdle
    /\ pc = "input"
    /\ \E prefs \in FilterPrefs :
         \E ds \in SeqsUpTo(SampleDocs, MaxFilterLen) :
            arg = [docs |-> ds, tags |-> build_tags(prefs)]
    /\ ret = None

ApplyFilter ==
    /\ pc = "input"
    /\ ret' = filter_books(arg.docs, arg.tags)
    /\ pc' = "done"
    /\ UNCHANGED arg
    /\ SessionUnchanged

SpecFilter == InitFilter /\ [][ApplyFilter]_vars

\* Mixed short lists, and lists of more than ten records of two works.
PickDocs ==
    SeqsUpTo(SampleDocs, MaxShortLen) \cup SeqsUpTo({DocDune, DocKid}, MaxPickLen)

InitPick ==
    /\ SessionIdle
    /\ pc = "input"
    /\ \E ds \in PickDocs :
         \E pk \in {None, Some(KeyA), Some(KeyB)} :
            arg = [docs |-> ds, prev_key |-> pk]
    /\ ret = None

ApplyPick ==
    /\ pc = "input"
    /\ ret' \in pick_random(arg.docs, arg.prev_key)
    /\ pc' = "done"
    /\ UNCHANGED arg
    /\ SessionUnchanged

SpecPick == InitPick /\ [][ApplyPick]_vars

\* Records with every combination of missing and present display fields.
FormatDocs ==
    { Doc(k, t, a, y, p, c, None, None) :
        k \in {None, Some(KeyA)},
        t \in {None, Some(TitleDune)},
        a \in {None, Some(<<>>), Some(<<AuthHerbert>>), Some(<<AuthHerbert, AuthAnon>>)},
        y \in {None, Some(1965)},
        p \in {None, Some(412)},
        c \in {None, Some(0), Some(7), Some(12)} }

InitFormat ==
    /\ SessionIdle
    /\ pc = "input"
    /\ \E d \in FormatDocs : arg = Some(d)
    /\ ret = None

ApplyFormat ==
    /\ pc = "input"
    /\ ret' = format_book(arg)
    /\ pc' = "done"
    /\ UNCHANGED arg
    /\ SessionUnchanged

SpecFormat == InitFormat /\ [][ApplyFormat]_vars

---------------------------------------------------------------------------
(* Claims about fetch_books (SpecFetch) *)

\* Query i succeeded and returned a record with identifier k.
Returned(i, k) ==
    /\ arg.responses[i].kind = "ok"
    /\ \E d \in Range(arg.responses[i].docs) : has_key(d) /\ d.key = k

EarliestQuery(k) ==
    CHOOSE i \in DOMAIN arg.responses :
        Returned(i, k) /\ \A j \in 1..(i - 1) : ~Returned(j, k)

\* C1: when several queries return the same identifier, the record kept in
\* the aggregated candidate set is the one of the earliest query that
\* returned it; a later query never overwrites a stored record.
C1_FirstSeenWins ==
    (pc = "done" /\ ret.exc = "") =>
        \A n \in DOMAIN ret.docs :
            ret.docs[n] \in Range(arg.responses[EarliestQuery(ret.docs[n].key)].docs)

\* The identified records of the queries that succeeded.
SucceededRecords ==
    UNION { {d \in Range(arg.responses[i].docs) : has_key(d)} :
            i \in {j \in DOMAIN arg.responses : arg.responses[j].kind = "ok"} }

\* C2: a query that fails or returns a non-success status contributes no
\* candidate and does not abort the others: every query of the plan is
\* issued and the result is the deduplicated union of the records of the
\* queries that succeeded.
C2_PartialFailureTolerated ==
    pc = "done" =>
        /\ ret.exc = ""
        /\ Len(ret.issued) = Len(query_plan(arg.tags))
        /\ Range(ret.docs) \subseteq SucceededRecords
        /\ {d.key : d \in Range(ret.docs)} = {d.key : d \in SucceededRecords}
        /\ \A m, n \in DOMAIN ret.docs : ret.docs[m].key = ret.docs[n].key => m = n

---------------------------------------------------------------------------
(* Claims about pick_random (SpecPick) *)

\* C3: on a non-empty candidate list pick_random returns a member and never
\* None; it never returns a candidate with the excluded identifier when the
\* list holds one with another identifier; when every candidate has the
\* excluded identifier it ignores the exclusion and returns one of them.
C3_PickNeverNoneAndAvoidsPrev ==
    (pc = "done" /\ arg.docs # <<>>) =>
        /\ ret # None
        /\ ret[1] \in Range(arg.docs)
        /\ (\E d \in Range(arg.docs) : d.key # arg.prev_key) => ret[1].key # arg.prev_key
        /\ (\A d \in Range(arg.docs) : d.key = arg.prev_key) => ret[1].key = arg.prev_key

\* An alternative existed and was taken.
C3_WitnessAvoided ==
    /\ pc = "done"
    /\ Len(arg.docs) >= 2
    /\ \E d \in Range(arg.docs) : d.key = arg.prev_key
    /\ ret # None
    /\ ret[1].key # arg.prev_key

\* The spec's score: popularity x 2, plus 5 from 2015 on, plus 3 in [2000, 2015).
Score(d) ==
    (IF d.edition_count # None THEN 2 * d.edition_count[1] ELSE 0)
    + (IF d.first_publish_year = None THEN 0
       ELSE IF d.first_publish_year[1] >= 2015 THEN 5
       ELSE IF d.first_publish_year[1] >= 2000 THEN 3
       ELSE 0)

\* d is among the ten best of docs under some breaking of ties.
InTopTen(d, docs) ==
    Cardinality({i \in DOMAIN docs : Score(docs[i]) > Score(d)}) < 10

---------------------------------------------------------------------------
(* Claims about format_book (SpecFormat) *)

\* C5: format_book is total: for every record, one missing every field
\* included, it returns a DisplayBook and raises nothing, with the title,
\* authors and year placeholders filled in, no cover URL when the cover id
\* is absent and no canonical URL when the identifier is absent.
C5_FormatTotal ==
    pc = "done" =>
        /\ ret.exc = ""
        /\ arg[1].title = None => ret.val.title = UnknownTitle
        /\ (arg[1].author_name = None \/ arg[1].author_name = Some(<<>>))
              => ret.val.authors # <<>>
        /\ arg[1].first_publish_year = None => ret.val.year = <<"str", UnknownYear>>
        /\ arg[1].cover_i = None => ret.val.cover = None
        /\ arg[1].key = None => ret.val.url = None

---------------------------------------------------------------------------
(* Claims about filter_books (SpecFilter) *)

\* v is absent or within [bounds[1], bounds[2]], an absent bound being open.
WithinRange(v, bounds) ==
    \/ v = None
    \/ /\ (bounds[1] = None \/ bounds[1][1] <= v[1])
       /\ (bounds[2] = None \/ v[1] <= bounds[2][1])

SameLetter(c, l) ==
    c = l \/ \E j \in DOMAIN LowerCase : LowerCase[j] = l /\ UpperCase[j] = c

\* text holds keyword k somewhere, whatever the case of its letters.
HoldsKeyword(text, k) ==
    \E at \in 1..Len(text) :
        /\ at + Len(k) - 1 <= Len(text)
        /\ \A j \in 1..Len(k) : SameLetter(text[at + j - 1], k[j])

RECURSIVE SpaceJoined(_)
SpaceJoined(ss) ==
    IF ss = <<>> THEN <<>>
    ELSE IF Len(ss) = 1 THEN ss[1]
    ELSE ss[1] \o <<" ">> \o SpaceJoined(Tail(ss))

ChildrensBook(d) ==
    \E n \in DOMAIN kids_keywords :
        \/ d.title # None /\ HoldsKeyword(d.title[1], kids_keywords[n])
        \/ d.subject # None /\ HoldsKeyword(SpaceJoined(d.subject[1]), kids_keywords[n])

Passes(d) ==
    /\ WithinRange(d.first_publish_year, arg.tags.year)
    /\ WithinRange(d.number_of_pages_median, arg.tags.length)
    /\ arg.tags.kids = "No" => ~ChildrensBook(d)

\* C6: filter_books returns, in input order, exactly the records whose year
\* is absent or in the year range, whose page count is absent or in the
\* length range, and, when kids = "No" only, whose title and subjects hold
\* no children's keyword.
C6_FilterExact ==
    pc = "done" =>
        /\ ret = SelectSeq(arg.docs, Passes)
        /\ \A d \in Range(arg.docs) :
              (d.first_publish_year = None /\ d.number_of_pages_median = None
               /\ arg.tags.kids = "Yes") => d \in Range(ret)

\* A bounded year range drops one record and keeps another, children excluded.
C6_WitnessDropsAndKeeps ==
    /\ pc = "done"
    /\ arg.tags.kids = "No"
    /\ arg.tags.year[1] # None /\ arg.tags.year[2] # None
    /\ Len(arg.docs) = 2
    /\ Len(ret) = 1
    /\ \E d \in Range(arg.docs) :
          d.first_publish_year # None /\ ~WithinRange(d.first_publish_year, arg.tags.year)

---------------------------------------------------------------------------
(* The session: one action per script run that changes st.session_state.   *)
(* (The detail and rating lookups of fetch_work_details, made while a book *)
(* is rendered, touch no session state and send no search request.)        *)

SessionPrefs ==
    [genres     : {<<"Fantasy">>},
     mood       : {<<>>},
     length     : {"Surprise me"},
     year_range : {"No preference", "1950-1980"},
     kids       : {"No", "Yes"}]

\* Lines 274-286: build_tags, fetch_books, filter_books on one submission.
pipeline(prefs, responses) ==
    LET tags == build_tags(prefs)
        f    == fetch_books(tags, responses)
    IN  [exc  |-> f.exc,
         sent |-> Len(f.issued),
         docs |-> IF f.exc = "" THEN filter_books(f.docs, tags) ELSE <<>>]

\* Every outcome of lines 274-286 over the quiz answers and catalog responses.
SubmitRuns ==
    UNION { {pipeline(p, rs) : rs \in ResponsesFor(build_tags(p))} : p \in SessionPrefs }

\* Lines 288-289: the candidate set kept after a submission that gave docs.
stored_results_always(docs, old) == docs

stored_results(docs, old) == IF docs # <<>> THEN docs ELSE old

\* Lines 336-338 and 342-344: the next selection, biased away from book b.
show_another_unbiased(res, b) == pick_random(res, None)

show_another(res, b) == pick_random(res, b.key)

\* Line 335: st.session_state.likes.append(book)
likes_append_if_new(ls, b) == IF b \in Range(ls) THEN ls ELSE Append(ls, b)

likes_append(ls, b) == Append(ls, b)

Shown == IF book = None THEN None ELSE book[1].key

Init ==
    /\ SessionIdle
    /\ pc = "session"
    /\ arg = None
    /\ ret = None

\* "Find Books": lines 273-292.
Submit ==
    /\ pc = "session"
    /\ \E run \in SubmitRuns :
         /\ op' = "submit"
         /\ sent' = run.sent
         /\ prevKey' = Shown
         /\ IF run.exc # ""
            THEN \* fetch_books raised at line 285: the script run ends there
                 /\ exc' = run.exc
                 /\ UNCHANGED <<results, book, filtered>>
            ELSE /\ filtered' = run.docs
                 /\ results' = stored_results(run.docs, results)
                 /\ IF run.docs # <<>>
                    THEN \E d \in pick_random(run.docs, None) :
                            LET b == format_book(d)
                            IN  /\ exc' = b.exc
                                /\ book' = IF b.exc = "" THEN Some(b.val) ELSE book
                    ELSE /\ exc' = ""
                         /\ UNCHANGED book
    /\ UNCHANGED <<likes, pc, arg, ret>>

\* The Like button: lines 334-339, shown only while a book is displayed.
Like ==
    /\ pc = "session"
    /\ book # None
    /\ Len(likes) < MaxLikes
    /\ op' = "like"
    /\ sent' = 0
    /\ prevKey' = Shown
    /\ likes' = likes_append(likes, book[1])
    /\ \E d \in show_another(results, book[1]) :
          LET b == format_book(d)
          IN  /\ exc' = b.exc
              /\ book' = IF b.exc = "" THEN Some(b.val) ELSE book
    /\ UNCHANGED <<results, filtered, pc, arg, ret>>

\* The Skip button: lines 341-345.
Skip ==
    /\ pc = "session"
    /\ book # None
    /\ op' = "skip"
    /\ sent' = 0
    /\ prevKey' = Shown
    /\ \E d \in show_another(results, book[1]) :
          LET b == format_book(d)
          IN  /\ exc' = b.exc
              /\ book' = IF b.exc = "" THEN Some(b.val) ELSE book
    /\ UNCHANGED <<results, likes, filtered, pc, arg, ret>>

Next == Submit \/ Like \/ Skip

Spec == Init /\ [][Next]_vars

---------------------------------------------------------------------------
(* Claims about the session (Spec) *)

\* C7: after a Like or a Skip, whenever the stored candidate set holds at
\* least two candidates, the book displayed has another identifier than the
\* one displayed before; the same book is shown again only when it is the
\* sole stored candidate.
C7_NoImmediateRepeat ==
    (op \in {"like", "skip"}) =>
        /\ Len(results) >= 2 => book[1].key # prevKey
        /\ book[1].key = prevKey => Len(results) = 1

\* A Skip over a set of at least two candidates.
C7_WitnessSkipChanged ==
    /\ op = "skip"
    /\ Len(results) >= 2
    /\ book[1].key # prevKey

\* C8: after every submission, whatever it yields, the stored candidate set
\* is the filtered candidate set of that submission, and no book of an
\* earlier submission is still displayed.
C8_ReplacedWholesale ==
    (op = "submit" /\ exc = "") =>
        /\ results = filtered
        /\ book # None => \E i \in DOMAIN filtered : filtered[i].key = book[1].key

\* C9: a Like or a Skip sends no search request and leaves the stored
\* candidate set unchanged; Skip leaves the liked books unchanged and Like
\* appends exactly the book that was displayed.
C9_SwipeFrame ==
    [][ (op' \in {"like", "skip"}) =>
          /\ sent' = 0
          /\ results' = results
          /\ op' = "skip" => likes' = likes
          /\ op' = "like" => likes' = Append(likes, book[1]) ]_vars

\* The same book liked twice in a row, its sole candidate left as stored.
C9_WitnessLikedTwice ==
    /\ op = "like"
    /\ Len(likes) = 2
    /\ likes[1] = likes[2]
    /\ sent = 0
    /\ results # <<>>

\* C10: while a book is displayed the stored candidate set is non-empty and
\* holds a candidate with the displayed book's identifier; hence no Like or
\* Skip picks from an empty set or formats a None selection.
C10_DisplayedIsStored ==
    /\ book # None =>
          /\ results # <<>>
          /\ \E i \in DOMAIN results : results[i].key = book[1].key
    /\ op \in {"like", "skip"} => exc = ""

\* A Skip after a submission that yielded nothing.
C10_WitnessSkipAfterEmpty ==
    /\ op = "skip"
    /\ filtered = <<>>
    /\ book # None
    /\ exc = ""

=============================================================================
